---- MODULE Spec2Model ----
(***************************************************************************)
(* Material workspaces of skill-forge: the upward search for the project   *)
(* boundary (scripts/fetch_source.py and scripts/cleanup_materials.py),    *)
(* the candidate roots, the inventory and the guarded deletions of         *)
(* scripts/cleanup_materials.py, the clone and conversion steps of         *)
(* scripts/fetch_source.py, and the file filter of                         *)
(* scripts/package_skill.py.                                               *)
(*                                                                         *)
(* The directories the search can see form one chain: the start directory  *)
(* and its ancestors. A directory of the chain is named by its depth, the  *)
(* filesystem root being 0.                                                *)
(***************************************************************************)
EXTENDS Integers, Sequences, FiniteSets, TLC

\* ------------------------------------------------------------------ bounds

\* Deepest directory of the chain in the boundary-search specification.
MaxDepth == 3

\* Depth of the working directory in the lifecycle specification.
CwdDepth == 1

\* Number of visible entry names taken from NamePool.
NumNames == 2

\* Most removals that the filesystem refuses during one operation.
MaxDenied == 1

\* Most files and directories in the two roots together at the start.
MaxItems == 3

\* Most choices of one interactive session that leave it running.
MaxPicks == 2

\* Number of files of FilePool a skill folder may hold.
NumFiles == 7

\* ------------------------------------------------------------------ values

\* find_project_root's "return None".
Absent == -1

\* script_dir when the tool's directory is no ancestor of the start directory.
OffPath == -2

VARIABLES
    marked,         \* depths of the directories that contain .git or .claude
    toolDir,        \* depth of script_dir (the tool's directory), or OffPath
    hasSkillMd,     \* (script_dir / 'SKILL.md').exists()
    namedForge,     \* script_dir.name == 'skill-forge'
    cwd,            \* depth of Path.cwd()
    disk,           \* root path -> NoRoot, or its content: name -> kind
    pc,             \* "idle", "loop" (inside find_project_root), "done"; "off"
    variant,        \* which find_project_root runs: "fetch" or "cleanup"
    start,          \* start_path.resolve() of the running search
    current,        \* the loop variable of find_project_root
    result,         \* what the search returned (Absent for None)
    materials,      \* the snapshot of an interactive session
    session,        \* TRUE inside interactive_cleanup's while loop
    picks,          \* iterations of that loop taken so far
    last,           \* what the last operation did and reported
    skillKind,      \* what is at skill_path: "none", "file" or "dir"
    skillFiles,     \* the regular files below skill_path, as relative paths
    packed,         \* what package_skill did and returned
    args,           \* the parsed arguments of fetch_source.py
    mainPc,         \* where fetch_source.main() is
    run             \* success_git, success_docs, the calls made, the exit

chainVars == <<marked, toolDir, hasSkillMd, namedForge, cwd>>
walkVars == <<pc, variant, start, current, result>>
lifeVars == <<disk, materials, session, picks, last>>
packVars == <<skillKind, skillFiles, packed>>
mainVars == <<args, mainPc, run>>
vars == <<marked, toolDir, hasSkillMd, namedForge, cwd, disk, pc, variant,
          start, current, result, materials, session, picks, last,
          skillKind, skillFiles, packed, args, mainPc, run>>

\* ------------------------------------------------------- the directory chain

\* pathlib's Path.parent: the root is its own parent.
Parent(d) == IF d = 0 THEN 0 ELSE d - 1

\* (current / '.git').exists() or (current / '.claude').exists()
HasMarker(d) == d \in marked

\* is_skill_forge_dir of fetch_source.find_project_root.
IsSkillForgeDir == hasSkillMd /\ namedForge

\* The test that makes the fetch search step over the tool's own directory.
SkipsToolDir(v, d) == v = "fetch" /\ IsSkillForgeDir /\ d = toolDir

\* The loop condition "current != current.parent".
LoopGuard(d) == d # Parent(d)

\* Where the skipping iteration continues from.
SkipTargetStay(d) == d

SkipTarget(d) == Parent(d)

\* find_project_root as a function of the start directory: v names the copy,
\* "fetch" (with the exclusion) or "cleanup" (without).
RECURSIVE FindProjectRoot(_, _)
FindProjectRoot(v, d) ==
    IF ~LoopGuard(d) THEN Absent
    ELSE IF HasMarker(d) /\ ~SkipsToolDir(v, d) THEN d
    ELSE IF HasMarker(d) THEN FindProjectRoot(v, SkipTarget(d))
    ELSE FindProjectRoot(v, Parent(d))

\* ------------------------------------------------- the search, step by step

\* A search that tests the start directory's parent first.
WalkStartAtParent(v, s) ==
    /\ pc = "idle"
    /\ pc' = "loop"
    /\ variant' = v
    /\ start' = s
    /\ current' = Parent(s)
    /\ result' = Absent
    /\ UNCHANGED <<chainVars, lifeVars,
                   packVars, mainVars>>

\* find_project_root(start_path): current = start_path.resolve().
WalkStart(v, s) ==
    /\ pc = "idle"
    /\ pc' = "loop"
    /\ variant' = v
    /\ start' = s
    /\ current' = s
    /\ result' = Absent
    /\ UNCHANGED <<chainVars, lifeVars,
                   packVars, mainVars>>

\* One iteration that finds no marker: current = current.parent.
WalkUp ==
    /\ pc = "loop"
    /\ LoopGuard(current)
    /\ ~HasMarker(current)
    /\ current' = Parent(current)
    /\ UNCHANGED <<pc, variant, start, result, chainVars, lifeVars,
                   packVars, mainVars>>

\* One iteration that finds a marker in the tool's own directory (fetch only).
WalkSkip ==
    /\ pc = "loop"
    /\ LoopGuard(current)
    /\ HasMarker(current)
    /\ SkipsToolDir(variant, current)
    /\ current' = SkipTarget(current)
    /\ UNCHANGED <<pc, variant, start, result, chainVars, lifeVars,
                   packVars, mainVars>>

\* One iteration that finds a marker: return current.
WalkFound ==
    /\ pc = "loop"
    /\ LoopGuard(current)
    /\ HasMarker(current)
    /\ ~SkipsToolDir(variant, current)
    /\ result' = current
    /\ pc' = "done"
    /\ UNCHANGED <<variant, start, current, chainVars, lifeVars,
                   packVars, mainVars>>

\* The loop ends at the filesystem root: return None.
WalkExit ==
    /\ pc = "loop"
    /\ ~LoopGuard(current)
    /\ result' = Absent
    /\ pc' = "done"
    /\ UNCHANGED <<variant, start, current, chainVars, lifeVars,
                   packVars, mainVars>>

\* ------------------------------------------------------------------- text

\* The characters the model types and names things with, in code-point order.
AsciiOrder == <<" ", ".", "0", "1", "2", "3", "4", "5", "6", "7", "A", "D", "E",
                "L", "T", "Y", "a", "b", "d", "e", "h", "i", "l", "n", "q",
                "s", "t", "u", "x", "y">>

\* ord(c), up to an order-preserving renumbering.
Ord(c) == CHOOSE i \in 1..Len(AsciiOrder) : AsciiOrder[i] = c

\* str.lower() on one character.
LowerChar(c) ==
    CASE c = "A" -> "a" [] c = "D" -> "d" [] c = "E" -> "e" [] c = "L" -> "l"
      [] c = "T" -> "t" [] c = "Y" -> "y" [] OTHER -> c

\* str.lower()
Lower(s) == [i \in 1..Len(s) |-> LowerChar(s[i])]

IsSpace(c) == c = " "

RECURSIVE StripLeft(_)
StripLeft(s) == IF s # <<>> /\ IsSpace(Head(s)) THEN StripLeft(Tail(s)) ELSE s

RECURSIVE StripRight(_)
StripRight(s) ==
    IF s # <<>> /\ IsSpace(s[Len(s)])
    THEN StripRight(SubSeq(s, 1, Len(s) - 1)) ELSE s

\* str.strip()
Strip(s) == StripRight(StripLeft(s))

\* a < b for two str values: by code points, a proper prefix first.
RECURSIVE LexLess(_, _)
LexLess(a, b) ==
    IF b = <<>> THEN FALSE
    ELSE IF a = <<>> THEN TRUE
    ELSE IF Head(a) # Head(b) THEN Ord(Head(a)) < Ord(Head(b))
    ELSE LexLess(Tail(a), Tail(b))

\* The literal 'DELETE ALL'.
DeleteAllPhrase == <<"D", "E", "L", "E", "T", "E", " ", "A", "L", "L">>

\* What the operator may type at "Type 'DELETE ALL' to confirm: ".
TypedPhrases ==
    { DeleteAllPhrase,
      <<" ">> \o DeleteAllPhrase \o <<" ">>,
      Lower(DeleteAllPhrase),
      <<"y">> }

\* What the operator may type at "Confirm deletion? (y/n): ".
TypedAnswers == { <<"y">>, <<" ", "Y", " ">>, <<"n">>, <<"y", "e", "s">> }

\* What the operator may type at "Your choice: ".
TypedChoices ==
    { <<"q", "u", "i", "t">>, <<" ", "A", "L", "L">>, <<"x">>, << >>,
      <<" ", "1">> }
    \cup {<<AsciiOrder[i]>> : i \in Ord("0")..Ord("7")}

\* int(response) does not raise ValueError: the typed digits.
IsInt(s) ==
    /\ s # << >>
    /\ \A i \in 1..Len(s) : s[i] \in {"0", "1", "2", "3", "4", "5", "6", "7"}

\* int(response)
RECURSIVE IntOf(_)
IntOf(s) ==
    IF s = << >> THEN 0
    ELSE 10 * IntOf(SubSeq(s, 1, Len(s) - 1)) + (Ord(s[Len(s)]) - Ord("0"))

\* The two answers drawn per entry inside a batch.
BatchAnswers == { <<"y">>, <<"n">> }

\* "confirm == 'DELETE ALL'" after "input(...).strip()".
PhraseAcceptedAnyCase(typed) == Lower(Strip(typed)) = Lower(DeleteAllPhrase)

PhraseAccepted(typed) == Strip(typed) = DeleteAllPhrase

\* A confirmation that takes everything but 'n' for a yes.
ConfirmedUnlessNo(typed) == Lower(Strip(typed)) # <<"n">>

\* confirm_deletion: input(...).strip().lower() == 'y'
Confirmed(typed) == Lower(Strip(typed)) = <<"y">>

\* ------------------------------------------------------------------- disk

\* A name that starts with '.', and the visible names.
HiddenName == <<".", "h">>

NamePool == << <<"a">>, <<"b">>, <<"a", "b">>, <<"b", "a">> >>

Names == {HiddenName} \cup {NamePool[i] : i \in 1..NumNames}

Kinds == {"none", "dir", "file"}

\* The name '..' as an argument: root / '..' is the directory that holds
\* the root.
DotDot == <<".", ".">>

\* The names cleanup_specific is called with.
ArgNames == Names \cup {DotDot}

\* <boundary>/.claude/temp-materials for the boundary at depth d.
ProjRoot(d) == <<"project", d>>

\* Path.home() / 'skill-materials'
GlobalRoot == <<"global", 0>>

Roots == {ProjRoot(d) : d \in 0..CwdDepth} \cup {GlobalRoot}

NoItems == [n \in Names |-> "none"]

NoRoot == [exists |-> FALSE, items |-> NoItems]

\* What is at root / name on the disk dk.
KindAt(dk, root, name) ==
    IF ~dk[root].exists THEN "none"
    ELSE IF name = DotDot THEN "dir"
    ELSE dk[root].items[name]

\* Path.exists()
Exists(dk, path) == KindAt(dk, path.root, path.name) # "none"

\* shutil.rmtree(path) returns instead of raising: the path is a directory
\* and the removal is not refused. On root / '..' it removes what the
\* directory holds, the root with it, and then fails to rmdir the path.
RmtreeOk(dk, path, denied) ==
    /\ KindAt(dk, path.root, path.name) = "dir"
    /\ path \notin denied
    /\ path.name # DotDot

\* A removal that empties the whole root of the path.
RemovedWithSiblings(dk, path) ==
    [dk EXCEPT ![path.root].items = NoItems]

\* The disk after a successful shutil.rmtree(path).
Removed(dk, path) ==
    IF path.name = DotDot THEN [dk EXCEPT ![path.root] = NoRoot]
    ELSE [dk EXCEPT ![path.root].items[path.name] = "none"]

\* The disk after a shutil.rmtree(path) that raised.
RmtreeRaised(dk, path, denied) ==
    IF /\ path.name = DotDot
       /\ KindAt(dk, path.root, path.name) = "dir"
       /\ path \notin denied
    THEN Removed(dk, path)
    ELSE dk

\* ------------------------------------------------------- resolver, inventory

\* get_materials_dirs without the two exists() tests.
GetMaterialsDirsUnchecked(dk) ==
    LET project_root == FindProjectRoot("cleanup", cwd)
    IN  (IF project_root # Absent
         THEN << [path |-> ProjRoot(project_root), mode |-> "project"] >>
         ELSE << >>)
        \o << [path |-> GlobalRoot, mode |-> "global"] >>

\* get_materials_dirs: the (path, mode_name) pairs, on the disk dk.
GetMaterialsDirs(dk) ==
    LET project_root == FindProjectRoot("cleanup", cwd)
    IN  (IF project_root # Absent /\ dk[ProjRoot(project_root)].exists
         THEN << [path |-> ProjRoot(project_root), mode |-> "project"] >>
         ELSE << >>)
        \o
        (IF dk[GlobalRoot].exists
         THEN << [path |-> GlobalRoot, mode |-> "global"] >>
         ELSE << >>)

\* get_materials_dir that falls back to the Global root only.
GetMaterialsDirGlobalFallback(dk) ==
    LET dirs == GetMaterialsDirs(dk)
    IN  IF dirs # << >> THEN dirs[1].path ELSE GlobalRoot

\* cleanup_materials.get_materials_dir: the first available root, else the
\* smart default.
GetMaterialsDir(dk) ==
    LET dirs == GetMaterialsDirs(dk)
        project_root == FindProjectRoot("cleanup", cwd)
    IN  IF dirs # << >> THEN dirs[1].path
        ELSE IF project_root # Absent THEN ProjRoot(project_root)
        ELSE GlobalRoot

\* get_smart_materials_dir that prefers a root already on the disk.
GetSmartMaterialsDirExisting(dk) ==
    LET project_root == FindProjectRoot("fetch", cwd)
    IN  IF project_root # Absent /\ dk[ProjRoot(project_root)].exists
        THEN ProjRoot(project_root)
        ELSE IF dk[GlobalRoot].exists THEN GlobalRoot
        ELSE IF project_root # Absent THEN ProjRoot(project_root)
        ELSE GlobalRoot

\* fetch_source.get_smart_materials_dir: materials_base.
GetSmartMaterialsDir(dk) ==
    LET project_root == FindProjectRoot("fetch", cwd)
    IN  IF project_root # Absent THEN ProjRoot(project_root) ELSE GlobalRoot

\* The least name of a non-empty set.
LeastName(S) == CHOOSE n \in S : \A m \in S \ {n} : LexLess(n, m)

\* The greatest name of a non-empty set.
GreatestName(S) == CHOOSE n \in S : \A m \in S \ {n} : LexLess(m, n)

\* iterdir() taken in descending order.
RECURSIVE SortedDescending(_)
SortedDescending(S) ==
    IF S = {} THEN << >>
    ELSE LET n == GreatestName(S) IN << n >> \o SortedDescending(S \ {n})

\* sorted(materials_dir.iterdir()), as names.
RECURSIVE Sorted(_)
Sorted(S) ==
    IF S = {} THEN << >>
    ELSE LET n == LeastName(S) IN << n >> \o Sorted(S \ {n})

\* name.startswith('.')
StartsWithDot(name) == name # << >> /\ Head(name) = "."

\* item.is_dir() and not item.name.startswith('.')
Qualifies(dk, root, name) ==
    KindAt(dk, root, name) = "dir" /\ ~StartsWithDot(name)

\* The dict list_materials appends for one item.
Material(root, mode, name) ==
    [name |-> name, path |-> [root |-> root, name |-> name], mode |-> mode]

\* The entries list_materials appends for one (materials_dir, mode).
RootMaterials(dk, dir) ==
    LET items == Sorted({n \in Names : KindAt(dk, dir.path, n) # "none"})
        keep == SelectSeq(items, LAMBDA n : Qualifies(dk, dir.path, n))
    IN  [i \in 1..Len(keep) |-> Material(dir.path, dir.mode, keep[i])]

RECURSIVE Concat(_, _, _)
Concat(dk, dirs, i) ==
    IF i > Len(dirs) THEN << >>
    ELSE RootMaterials(dk, dirs[i]) \o Concat(dk, dirs, i + 1)

\* list_materials() on the disk dk.
ListMaterials(dk) == Concat(dk, GetMaterialsDirs(dk), 1)

\* --------------------------------------------------------------- deletion

\* What an operation reports; each operation fills in its own fields.
NoReport ==
    [op |-> "none", name |-> << >>, force |-> FALSE, asked |-> FALSE,
     typed |-> << >>, phraseOk |-> FALSE, answer |-> << >>,
     prompts |-> << >>, tried |-> << >>, failed |-> {},
     count |-> 0, total |-> 0, ret |-> "None", dirs |-> << >>,
     listing |-> << >>, target |-> GlobalRoot, existed |-> FALSE,
     index |-> 0]

\* The running outcome of a sequence of deletions on the disk dk.
Outcome(dk) ==
    [dk |-> dk, prompts |-> << >>, tried |-> << >>, failed |-> {},
     count |-> 0, ok |-> FALSE]

\* The paths of a list of materials.
PathsOf(mats) == {mats[i].path : i \in 1..Len(mats)}

\* The sets of paths whose removal the filesystem may refuse.
DeniedSets(mats) == {D \in SUBSET PathsOf(mats) : Cardinality(D) <= MaxDenied}

\* try: shutil.rmtree(path) ... except Exception, on the outcome acc.
TryRmtree(acc, path, denied) ==
    IF RmtreeOk(acc.dk, path, denied)
    THEN [acc EXCEPT !.dk = Removed(@, path), !.tried = Append(@, path),
                     !.count = @ + 1, !.ok = TRUE]
    ELSE [acc EXCEPT !.dk = RmtreeRaised(@, path, denied),
                     !.tried = Append(@, path), !.failed = @ \cup {path},
                     !.ok = FALSE]

\* delete_material(material, force), the operator typing `typed` if asked.
DeleteMaterial(acc, mat, force, typed, denied) ==
    IF ~force
    THEN LET asked == [acc EXCEPT !.prompts = Append(@, mat.name)]
         IN  IF Confirmed(typed)
             THEN TryRmtree(asked, mat.path, denied)
             ELSE [asked EXCEPT !.ok = FALSE]
    ELSE TryRmtree(acc, mat.path, denied)

\* The loop of cleanup_all that gives up at the first removal that fails.
RECURSIVE CleanupAllLoopStops(_, _, _, _)
CleanupAllLoopStops(acc, mats, i, denied) ==
    IF i > Len(mats) THEN acc
    ELSE LET next == TryRmtree(acc, mats[i].path, denied)
         IN  IF next.ok THEN CleanupAllLoopStops(next, mats, i + 1, denied)
             ELSE next

\* "for mat in materials: try: shutil.rmtree(mat['path']) ..." of cleanup_all.
RECURSIVE CleanupAllLoop(_, _, _, _)
CleanupAllLoop(acc, mats, i, denied) ==
    IF i > Len(mats) THEN acc
    ELSE CleanupAllLoop(TryRmtree(acc, mats[i].path, denied), mats, i + 1, denied)

\* "for mat in materials: if delete_material(mat, force=False): ..." of
\* interactive_cleanup; answers[i] is what is typed at the i-th prompt.
RECURSIVE InteractiveAllLoop(_, _, _, _, _)
InteractiveAllLoop(acc, mats, i, answers, denied) ==
    IF i > Len(mats) THEN acc
    ELSE InteractiveAllLoop(
             DeleteMaterial(acc, mats[i], FALSE, answers[i], denied),
             mats, i + 1, answers, denied)

\* The search loop of cleanup_specific keeping the last root that has the name.
LastMatch(dk, dirs, name) ==
    LET hits == {i \in 1..Len(dirs) :
                    Exists(dk, [root |-> dirs[i].path, name |-> name])}
    IN  IF hits = {} THEN 0 ELSE CHOOSE i \in hits : \A j \in hits : j <= i

\* "for materials_dir, dir_mode in dirs: ... break": the index of the first
\* root in which the name exists, 0 if there is none.
FirstMatch(dk, dirs, name) ==
    LET hits == {i \in 1..Len(dirs) :
                    Exists(dk, [root |-> dirs[i].path, name |-> name])}
    IN  IF hits = {} THEN 0 ELSE CHOOSE i \in hits : \A j \in hits : i <= j

\* ------------------------------------------------- cleanup_materials.py

\* No entry point is running.
Idle == pc = "idle" /\ ~session

\* A behaviour is one invocation that may change the disk, started on any
\* disk; listings may follow it.
Fresh == Idle /\ last.op = "none"

\* main() with --list: list_materials(), print_materials_list(materials).
ListOnly ==
    /\ Idle
    /\ last' = [NoReport EXCEPT !.op = "list",
                                !.dirs = GetMaterialsDirs(disk),
                                !.listing = ListMaterials(disk),
                                !.total = Len(ListMaterials(disk))]
    /\ UNCHANGED <<disk, materials, session, picks, chainVars, walkVars,
                   packVars, mainVars>>

\* cleanup_all(force), the operator typing `typed` at the phrase prompt.
CleanupAll(force, typed, denied) ==
    /\ Fresh
    /\ LET mats == ListMaterials(disk)
           report == [NoReport EXCEPT !.op = "cleanup_all", !.force = force,
                                      !.listing = mats, !.total = Len(mats)]
       IN  IF mats = << >>
           THEN /\ last' = report
                /\ disk' = disk
           ELSE IF ~force /\ ~PhraseAccepted(typed)
           THEN /\ last' = [report EXCEPT !.asked = TRUE, !.typed = typed]
                /\ disk' = disk
           ELSE LET out == CleanupAllLoop(Outcome(disk), mats, 1, denied)
                IN  /\ last' = [report EXCEPT
                                   !.asked = ~force,
                                   !.typed = IF force THEN << >> ELSE typed,
                                   !.phraseOk = ~force,
                                   !.tried = out.tried,
                                   !.failed = out.failed,
                                   !.count = out.count]
                    /\ disk' = out.dk
    /\ UNCHANGED <<materials, session, picks, chainVars, walkVars,
                   packVars, mainVars>>

\* cleanup_specific(name, force), the operator typing `typed` if asked.
CleanupSpecific(name, force, typed, denied) ==
    /\ Fresh
    /\ LET found == GetMaterialsDirs(disk)
           dirs == IF found = << >>
                   THEN << [path |-> GetMaterialsDir(disk), mode |-> "auto"] >>
                   ELSE found
           hit == FirstMatch(disk, dirs, name)
           report == [NoReport EXCEPT !.op = "cleanup_specific",
                                      !.name = name,
                                      !.force = force, !.dirs = dirs]
       IN  IF hit = 0
           THEN /\ last' = [report EXCEPT !.ret = "False"]
                /\ disk' = disk
           ELSE LET mat == Material(dirs[hit].path, dirs[hit].mode, name)
                IN  IF KindAt(disk, mat.path.root, name) = "file"
                    \* get_dir_size: os.scandir raises NotADirectoryError
                    THEN /\ last' = [report EXCEPT !.ret = "raise",
                                                   !.listing = << mat >>]
                         /\ disk' = disk
                    ELSE LET out == DeleteMaterial(Outcome(disk), mat, force,
                                                   typed, denied)
                         IN  /\ last' = [report EXCEPT
                                   !.listing = << mat >>,
                                   !.answer = IF force THEN << >> ELSE typed,
                                   !.prompts = out.prompts,
                                   !.tried = out.tried,
                                   !.failed = out.failed,
                                   !.count = out.count,
                                   !.ret = IF out.ok THEN "True" ELSE "False"]
                             /\ disk' = out.dk
    /\ UNCHANGED <<materials, session, picks, chainVars, walkVars,
                   packVars, mainVars>>

\* interactive_cleanup up to its while loop: the snapshot.
InteractiveStart ==
    /\ Fresh
    /\ materials' = ListMaterials(disk)
    /\ session' = (ListMaterials(disk) # << >>)
    /\ picks' = 0
    /\ last' = [NoReport EXCEPT !.op = "interactive_start",
                                !.listing = ListMaterials(disk),
                                !.total = Len(ListMaterials(disk))]
    /\ UNCHANGED <<disk, chainVars, walkVars,
                   packVars, mainVars>>

\* response = input("Your choice: ").strip().lower()
Response(choice) == Lower(Strip(choice))

\* The choice 'quit'.
InteractiveQuit(choice) ==
    /\ session
    /\ Response(choice) = <<"q", "u", "i", "t">>
    /\ session' = FALSE
    /\ last' = [NoReport EXCEPT !.op = "interactive_quit",
                                !.total = Len(materials)]
    /\ UNCHANGED <<disk, materials, picks, chainVars, walkVars,
                   packVars, mainVars>>

\* The choice 'all'; answers[i] is typed at the i-th per-entry prompt.
InteractiveAll(choice, typed, answers, denied) ==
    /\ session
    /\ Response(choice) = <<"a", "l", "l">>
    /\ session' = FALSE
    /\ LET report == [NoReport EXCEPT !.op = "interactive_all",
                                      !.asked = TRUE,
                                      !.typed = typed,
                                      !.listing = materials,
                                      !.total = Len(materials)]
       IN  IF PhraseAccepted(typed)
           THEN LET out == InteractiveAllLoop(Outcome(disk), materials, 1,
                                              answers, denied)
                IN  /\ last' = [report EXCEPT !.phraseOk = TRUE,
                                              !.prompts = out.prompts,
                                              !.tried = out.tried,
                                              !.failed = out.failed,
                                              !.count = out.count]
                    /\ disk' = out.dk
           ELSE /\ last' = report
                /\ disk' = disk
    /\ UNCHANGED <<materials, picks, chainVars, walkVars,
                   packVars, mainVars>>

\* A numeric choice served from a listing taken again after every deletion.
InteractiveIndexRescan(choice, typed, denied) ==
    /\ session
    /\ picks < MaxPicks
    /\ picks' = picks + 1
    /\ IsInt(Response(choice))
    /\ LET index == IntOf(Response(choice)) - 1
       IN  /\ 0 <= index /\ index < Len(materials)
           /\ LET mat == materials[index + 1]
                  out == DeleteMaterial(Outcome(disk), mat, FALSE, typed, denied)
              IN  /\ last' = [NoReport EXCEPT
                                 !.op = "interactive_index",
                                 !.index = index + 1,
                                 !.listing = << mat >>,
                                 !.total = Len(materials),
                                 !.answer = typed,
                                 !.prompts = out.prompts,
                                 !.tried = out.tried,
                                 !.failed = out.failed,
                                 !.count = out.count,
                                 !.ret = IF out.ok THEN "True" ELSE "False"]
                  /\ disk' = out.dk
                  /\ materials' = ListMaterials(out.dk)
    /\ UNCHANGED <<session, chainVars, walkVars,
                   packVars, mainVars>>

\* A numeric choice inside 1..len(materials).
InteractiveIndex(choice, typed, denied) ==
    /\ session
    /\ picks < MaxPicks
    /\ picks' = picks + 1
    /\ IsInt(Response(choice))
    /\ LET index == IntOf(Response(choice)) - 1
       IN  /\ 0 <= index /\ index < Len(materials)
           /\ LET mat == materials[index + 1]
                  out == DeleteMaterial(Outcome(disk), mat, FALSE, typed, denied)
              IN  /\ last' = [NoReport EXCEPT
                                 !.op = "interactive_index",
                                 !.index = index + 1,
                                 !.listing = << mat >>,
                                 !.total = Len(materials),
                                 !.answer = typed,
                                 !.prompts = out.prompts,
                                 !.tried = out.tried,
                                 !.failed = out.failed,
                                 !.count = out.count,
                                 !.ret = IF out.ok THEN "True" ELSE "False"]
                  /\ disk' = out.dk
    /\ UNCHANGED <<materials, session, chainVars, walkVars,
                   packVars, mainVars>>

\* Any other choice: "Invalid index" or "Invalid input".
InteractiveInvalid(choice) ==
    /\ session
    /\ picks < MaxPicks
    /\ picks' = picks + 1
    /\ Response(choice) \notin {<<"q", "u", "i", "t">>, <<"a", "l", "l">>}
    /\ \/ ~IsInt(Response(choice))
       \/ /\ IsInt(Response(choice))
          /\ ~(0 <= IntOf(Response(choice)) - 1
               /\ IntOf(Response(choice)) - 1 < Len(materials))
    /\ last' = [NoReport EXCEPT !.op = "interactive_invalid",
                                !.total = Len(materials)]
    /\ UNCHANGED <<disk, materials, session, chainVars, walkVars,
                   packVars, mainVars>>

\* ------------------------------------------------------ fetch_source.py

\* main() of fetch_source.py from "if args.output" to output_dir.mkdir, with
\* no --output: the target is materials_base / project_name.
FetchPrepare(name, clean, typed, denied) ==
    /\ Fresh
    /\ LET base == GetSmartMaterialsDir(disk)
           kind == KindAt(disk, base, name)
           made == [disk EXCEPT ![base].exists = TRUE,
                                ![base].items[name] = "dir"]
           report == [NoReport EXCEPT !.op = "fetch", !.name = name,
                                      !.target = base,
                                      !.existed = disk[base].exists]
       IN  IF kind = "none"
           THEN /\ disk' = made
                /\ last' = report
           ELSE IF clean
           THEN \* shutil.rmtree(output_dir), not guarded by a try
                IF kind = "dir" /\ ~denied
                THEN /\ disk' = made
                     /\ last' = report
                ELSE /\ disk' = disk
                     /\ last' = [report EXCEPT !.ret = "raise"]
           ELSE IF Lower(Strip(typed)) # <<"y">>
           THEN \* "Aborted": sys.exit(0)
                /\ disk' = disk
                /\ last' = [report EXCEPT !.ret = "exit 0"]
           ELSE IF kind = "dir"
           THEN /\ disk' = made
                /\ last' = report
           ELSE \* mkdir(exist_ok=True) on a file: FileExistsError
                /\ disk' = disk
                /\ last' = [report EXCEPT !.ret = "raise"]
    /\ UNCHANGED <<materials, session, picks, chainVars, walkVars,
                   packVars, mainVars>>

\* ------------------------------------------------------ package_skill.py

\* Path parts: 'SKILL.md', the allow-listed directory names, the cache
\* directory, and the other names found in a skill folder.
SkillMd == <<"S", "K", "I", "L", "L", ".", "m", "d">>

Scripts == <<"s", "c", "r", "i", "p", "t", "s">>

References == <<"r", "e", "f", "e", "r", "e", "n", "c", "e", "s">>

Assets == <<"a", "s", "s", "e", "t", "s">>

Pycache == <<"_", "_", "p", "y", "c", "a", "c", "h", "e", "_", "_">>

PycSuffix == <<".", "p", "y", "c">>

ModulePy == <<"m", ".", "p", "y">>

ModulePyc == <<"m", ".", "p", "y", "c">>

Docs == <<"d", "o", "c", "s">>

Readme == <<"R", "E", "A", "D", "M", "E">>

\* skill_path.name, and skill_path.parent as parts.
SkillName == <<"s", "k">>

SkillParent == << <<"w">> >>

\* skill_path = Path(skill_path).resolve(), as parts.
SkillPath == SkillParent \o << SkillName >>

\* f"{skill_name}.zip"
ZipName == SkillName \o <<".", "z", "i", "p">>

\* allowed_paths
AllowedPaths == {Scripts, References, Assets}

\* The files a skill folder may hold, as paths relative to it.
FilePool ==
    << << SkillMd >>,
       << Scripts, ModulePy >>,
       << Scripts, Pycache, ModulePyc >>,
       << References, ModulePyc >>,
       << Assets >>,
       << Docs, ModulePy >>,
       << Readme >>,
       << References, SkillMd >>,
       << Scripts, Pycache, ModulePy >>,
       << Docs, SkillMd >> >>

\* str.endswith(suffix)
EndsWith(s, suffix) ==
    /\ Len(s) >= Len(suffix)
    /\ SubSeq(s, Len(s) - Len(suffix) + 1, Len(s)) = suffix

\* path.relative_to(base), for a base that is a prefix of the path.
RelativeTo(path, base) == SubSeq(path, Len(base) + 1, Len(path))

\* should_include for the file at skill_path / rel_path.
ShouldInclude(rel_path) ==
    IF rel_path[Len(rel_path)] = SkillMd /\ Len(rel_path) = 1 THEN TRUE
    ELSE IF Len(rel_path) > 0 /\ rel_path[1] \in AllowedPaths
    THEN /\ \A i \in 1..Len(rel_path) : rel_path[i] # Pycache
         /\ ~EndsWith(rel_path[Len(rel_path)], PycSuffix)
    ELSE FALSE

\* arcname = file_path.relative_to(skill_path.parent)
Arcname(rel_path) == RelativeTo(SkillPath \o rel_path, SkillParent)

\* What package_skill reports before it has run.
NoPack ==
    [ret |-> "none", error |-> "none", walked |-> {}, added |-> {},
     skipped |-> {}, exit |-> 0]

\* package_skill(skill_path, output_dir) and the exit of main(): `valid` is
\* what validate_skill answers, `zipError` whether creating the archive
\* raises. Without output_dir the archive is created inside the skill
\* folder before the walk, which then meets it.
PackageSkill(outputGiven, valid, zipError) ==
    /\ packed.ret = "none"
    /\ LET failed(why) == [NoPack EXCEPT !.ret = "None", !.error = why,
                                         !.exit = 1]
           walked == skillFiles \cup
                        (IF outputGiven THEN {} ELSE { << ZipName >> })
       IN  packed' =
             IF skillKind = "none" THEN failed("not found")
             ELSE IF skillKind # "dir" THEN failed("not a directory")
             ELSE IF \A f \in skillFiles : f[1] # SkillMd
             THEN failed("no SKILL.md")
             ELSE IF ~valid THEN failed("validation")
             ELSE IF zipError THEN failed("zip")
             ELSE [NoPack EXCEPT
                     !.ret = "zip",
                     !.walked = walked,
                     !.added = {Arcname(f) : f \in
                                   {g \in walked : ShouldInclude(g)}},
                     !.skipped = {Arcname(f) : f \in
                                   {g \in walked : ~ShouldInclude(g)}}]
    /\ UNCHANGED <<skillKind, skillFiles, chainVars, walkVars, lifeVars,
                   mainVars>>

\* ------------------------------------------- fetch_source.py, main()

\* The values of --depth: 0 for no --depth.
Depths == {0, 1}

\* How "git clone" ends: exit status 0, CalledProcessError, or no git.
CloneOutcomes == {"ok", "CalledProcessError", "FileNotFoundError"}

\* The command line clone_repository builds, the URL and the target left out.
CloneCmd(a) ==
    <<"git", "clone">>
    \o (IF a.depth # 0 THEN <<"--depth">> ELSE << >>)
    \o (IF a.branch THEN <<"--branch">> ELSE << >>)
    \o (IF a.single THEN <<"--single-branch">> ELSE << >>)

\* main() before the output directory is made.
NoRun ==
    [success_git |-> FALSE, success_docs |-> FALSE, calls |-> << >>,
     cmd |-> << >>, exit |-> -1]

\* "if args.git:" with --git: clone_repository, and sys.exit(1) if it failed.
MainClone(outcome) ==
    /\ mainPc = "clone"
    /\ args.git
    /\ LET ok == outcome = "ok"
       IN  /\ run' = [run EXCEPT !.success_git = ok,
                                 !.calls = Append(@, "clone_repository"),
                                 !.cmd = CloneCmd(args),
                                 !.exit = IF ok THEN @ ELSE 1]
           /\ mainPc' = IF ok THEN "docs" ELSE "exit"
    /\ UNCHANGED <<args, chainVars, walkVars, lifeVars, packVars>>

\* "if args.git:" without --git.
MainNoClone ==
    /\ mainPc = "clone"
    /\ ~args.git
    /\ mainPc' = "docs"
    /\ UNCHANGED <<args, run, chainVars, walkVars, lifeVars, packVars>>

\* "if args.docs:" with --docs, every failed conversion ending the program.
MainDocsFatal(installed, converted) ==
    /\ mainPc = "docs"
    /\ args.docs
    /\ LET ok == installed /\ converted
           calls == <<"fetch_documentation">>
                    \o (IF installed THEN <<"convert">> ELSE << >>)
       IN  /\ run' = [run EXCEPT !.success_docs = ok,
                                 !.calls = @ \o calls,
                                 !.exit = IF ok THEN @ ELSE 1]
           /\ mainPc' = IF ok THEN "next" ELSE "exit"
    /\ UNCHANGED <<args, chainVars, walkVars, lifeVars, packVars>>

\* "if args.docs:" with --docs: fetch_documentation, which converts only
\* when markitdown is installed; a failure is fatal only without --git.
MainDocs(installed, converted) ==
    /\ mainPc = "docs"
    /\ args.docs
    /\ LET ok == installed /\ converted
           fatal == ~ok /\ ~args.git
           calls == <<"fetch_documentation">>
                    \o (IF installed THEN <<"convert">> ELSE << >>)
       IN  /\ run' = [run EXCEPT !.success_docs = ok,
                                 !.calls = @ \o calls,
                                 !.exit = IF fatal THEN 1 ELSE @]
           /\ mainPc' = IF fatal THEN "exit" ELSE "next"
    /\ UNCHANGED <<args, chainVars, walkVars, lifeVars, packVars>>

\* "if args.docs:" without --docs.
MainNoDocs ==
    /\ mainPc = "docs"
    /\ ~args.docs
    /\ mainPc' = "next"
    /\ UNCHANGED <<args, run, chainVars, walkVars, lifeVars, packVars>>

\* print_next_steps(output_dir, success_git, success_docs); main returns.
MainNextSteps ==
    /\ mainPc = "next"
    /\ run' = [run EXCEPT !.calls = Append(@, "print_next_steps"),
                          !.exit = 0]
    /\ mainPc' = "exit"
    /\ UNCHANGED <<args, chainVars, walkVars, lifeVars, packVars>>

\* ------------------------------------------------------- specifications

\* The tool's directory: anywhere on the chain or off it; the filesystem
\* root has the empty name.
ToolInit(deepest) ==
    /\ toolDir \in {OffPath} \cup (0..deepest)
    /\ hasSkillMd \in BOOLEAN
    /\ namedForge \in BOOLEAN
    /\ toolDir = 0 => ~namedForge

\* A root that is absent, or present with any content.
RootStates ==
    {NoRoot} \cup {[exists |-> TRUE, items |-> f] : f \in [Names -> Kinds]}

\* package_skill.py is not running.
NoPackaging ==
    /\ skillKind = "none"
    /\ skillFiles = {}
    /\ packed = NoPack

\* main() of fetch_source.py is not running.
NoFetchMain ==
    /\ args = [git |-> FALSE, docs |-> FALSE, depth |-> 0, branch |-> FALSE,
               single |-> FALSE]
    /\ mainPc = "off"
    /\ run = NoRun

\* Neither a boundary search nor an operation on the material roots runs.
NoMaterials ==
    /\ marked = {}
    /\ toolDir = OffPath
    /\ hasSkillMd = FALSE
    /\ namedForge = FALSE
    /\ cwd = 0
    /\ disk = [r \in Roots |-> NoRoot]
    /\ pc = "off"
    /\ variant = "cleanup"
    /\ start = 0
    /\ current = 0
    /\ result = Absent
    /\ materials = << >>
    /\ session = FALSE
    /\ picks = 0
    /\ last = NoReport

\* The boundary search alone, from every working directory of the chain.
InitWalk ==
    /\ marked \in SUBSET (0..MaxDepth)
    /\ cwd \in 0..MaxDepth
    /\ ToolInit(MaxDepth)
    /\ disk = [r \in Roots |-> NoRoot]
    /\ pc = "idle"
    /\ variant = "cleanup"
    /\ start = cwd
    /\ current = cwd
    /\ result = Absent
    /\ materials = << >>
    /\ session = FALSE
    /\ picks = 0
    /\ last = NoReport
    /\ NoPackaging
    /\ NoFetchMain

NextWalk ==
    \/ \E v \in {"fetch", "cleanup"} : WalkStart(v, cwd)
    \/ WalkUp
    \/ WalkSkip
    \/ WalkFound
    \/ WalkExit

SpecWalk == InitWalk /\ [][NextWalk]_vars

\* The program is one thread that keeps running: a started search takes its
\* next iteration.
FairSpecWalk ==
    SpecWalk /\ WF_vars(WalkUp \/ WalkSkip \/ WalkFound \/ WalkExit)

\* One invocation of cleanup_materials.py or of fetch_source.py, on a disk
\* that holds material only in the roots the cleanup tool looks at. The
\* tool's directory, when it is an ancestor of the working directory, is a
\* recognised skill-forge directory: one that is not is searched like any
\* other directory, as when it is off the chain.
Init ==
    /\ cwd = CwdDepth
    /\ marked \in SUBSET (0..CwdDepth)
    /\ toolDir \in {OffPath} \cup (1..CwdDepth)
    /\ hasSkillMd = (toolDir # OffPath)
    /\ namedForge = (toolDir # OffPath)
    /\ \E g \in RootStates, p \in RootStates :
          disk = [r \in Roots |->
                     IF r = GlobalRoot THEN g
                     ELSE IF /\ FindProjectRoot("cleanup", cwd) # Absent
                             /\ r = ProjRoot(FindProjectRoot("cleanup", cwd))
                     THEN p
                     ELSE NoRoot]
    /\ Cardinality({rn \in Roots \X Names :
                        KindAt(disk, rn[1], rn[2]) # "none"}) <= MaxItems
    /\ pc = "idle"
    /\ variant = "cleanup"
    /\ start = cwd
    /\ current = cwd
    /\ result = Absent
    /\ materials = << >>
    /\ session = FALSE
    /\ picks = 0
    /\ last = NoReport
    /\ NoPackaging
    /\ NoFetchMain

\* Every path that ends in the name.
PathsNamed(name) == {[root |-> r, name |-> name] : r \in Roots}

\* The refusals and the per-entry answers matter only to a batch that runs.
NoDenial == {{}}

Next ==
    \/ ListOnly
    \/ /\ Fresh
       /\ \E force \in BOOLEAN, typed \in TypedPhrases :
             \E denied \in IF force \/ PhraseAccepted(typed)
                           THEN DeniedSets(ListMaterials(disk)) ELSE NoDenial :
                CleanupAll(force, typed, denied)
    \/ /\ Fresh
       /\ \E name \in ArgNames, force \in BOOLEAN, typed \in TypedAnswers :
             \E denied \in {{}, PathsNamed(name)} :
                CleanupSpecific(name, force, typed, denied)
    \/ InteractiveStart
    \/ /\ session
       /\ \E choice \in TypedChoices : InteractiveQuit(choice)
    \/ /\ session
       /\ \E choice \in TypedChoices, typed \in TypedPhrases :
             \E answers \in IF PhraseAccepted(typed)
                            THEN [1..Len(materials) -> BatchAnswers]
                            ELSE {[i \in 1..Len(materials) |-> << >>]},
                denied \in IF PhraseAccepted(typed)
                           THEN DeniedSets(materials) ELSE NoDenial :
                InteractiveAll(choice, typed, answers, denied)
    \/ /\ session
       /\ \E choice \in TypedChoices, typed \in TypedAnswers :
             \E denied \in {{}, PathsOf(materials)} :
                InteractiveIndex(choice, typed, denied)
    \/ /\ session
       /\ \E choice \in TypedChoices : InteractiveInvalid(choice)
    \/ /\ Fresh
       /\ \E name \in Names, clean \in BOOLEAN, typed \in TypedAnswers,
             denied \in BOOLEAN :
             FetchPrepare(name, clean, typed, denied)

Spec == Init /\ [][Next]_vars

\* The skill folders package_skill is called on: a missing path, a regular
\* file, or a directory holding any of the first NumFiles files of FilePool.
InitPack ==
    /\ NoMaterials
    /\ NoFetchMain
    /\ skillKind \in {"none", "file", "dir"}
    /\ skillFiles \in SUBSET {FilePool[i] : i \in 1..NumFiles}
    /\ skillKind # "dir" => skillFiles = {}
    /\ \A f, g \in skillFiles :
          ~(Len(f) < Len(g) /\ SubSeq(g, 1, Len(f)) = f)
    /\ packed = NoPack

NextPack ==
    \E outputGiven \in BOOLEAN, valid \in BOOLEAN, zipError \in BOOLEAN :
        PackageSkill(outputGiven, valid, zipError)

SpecPack == InitPack /\ [][NextPack]_vars

\* fetch_source.py once the output directory is made: --git, --docs or
\* both, with any clone options.
InitMain ==
    /\ NoMaterials
    /\ NoPackaging
    /\ args \in [git : BOOLEAN, docs : BOOLEAN, depth : Depths,
                  branch : BOOLEAN, single : BOOLEAN]
    /\ args.git \/ args.docs
    /\ mainPc = "clone"
    /\ run = NoRun

NextMain ==
    \/ \E outcome \in CloneOutcomes : MainClone(outcome)
    \/ MainNoClone
    \/ \E installed \in BOOLEAN, converted \in BOOLEAN :
          MainDocs(installed, converted)
    \/ MainNoDocs
    \/ MainNextSteps

SpecMain == InitMain /\ [][NextMain]_vars

\* ------------------------------------------------------------ properties

\* The greatest element of a non-empty set of depths.
Deepest(S) == CHOOSE d \in S : \A e \in S : e <= d

\* The running search has returned.
Returned == pc = "done"

\* C5: the boundary search never returns the tool's own directory, from any
\* start at or below it, in the fetch search and in the cleanup search alike.
C5_NeverToolDir ==
    (Returned /\ toolDir # OffPath /\ toolDir <= start) => result # toolDir

\* C6 as stated: the search returns the marked directory nearest to the start
\* among the start and all its ancestors, the filesystem root included, and
\* None only if none of them is marked.
C6_NearestMarked ==
    Returned =>
        LET cands == {d \in 0..start : d \in marked}
        IN  result = IF cands = {} THEN Absent ELSE Deepest(cands)

\* C6 as amended: the search returns the nearest directory, among the start
\* and its ancestors below the filesystem root, that is marked and is not the
\* tool's own directory when the fetch search recognises it (SKILL.md present,
\* named skill-forge); None exactly when there is no such directory.
C6_NearestEligible ==
    Returned =>
        LET cands == {d \in 1..start :
                         /\ d \in marked
                         /\ ~(variant = "fetch" /\ hasSkillMd /\ namedForge
                              /\ d = toolDir)}
        IN  result = IF cands = {} THEN Absent ELSE Deepest(cands)

\* A search that started below the only marked directory and returned it.
C6_Witness ==
    /\ Returned
    /\ Cardinality(marked) = 1
    /\ result \in marked
    /\ start >= result + 2

\* C7: a started search returns; every iteration that does not return moves
\* to the parent, strictly upwards, the iteration that steps over the tool's
\* directory included; and None is returned at the filesystem root.
C7_SearchTerminates ==
    /\ (pc = "loop") ~> Returned
    /\ [][(pc = "loop" /\ pc' = "loop")
             => (current' = Parent(current) /\ current' < current)]_vars
    /\ [](Returned /\ result = Absent => current = 0)

\* A fetch search from the deepest directory that stepped over the marked
\* tool directory and ended at the filesystem root with None.
C7_Witness ==
    /\ Returned
    /\ result = Absent
    /\ variant = "fetch"
    /\ IsSkillForgeDir
    /\ toolDir \in marked
    /\ 0 < toolDir /\ toolDir <= start
    /\ start = MaxDepth

\* The two operations that delete the whole inventory after one phrase.
BulkOps == {"cleanup_all", "interactive_all"}

\* C1 as stated: in a bulk deletion that asks for the phrase, a typed phrase
\* that is not exactly 'DELETE ALL' leaves every entry on the disk.
C1_NotExactNoRemoval ==
    [][(last'.op \in BulkOps /\ last'.asked /\ last'.typed # DeleteAllPhrase)
          => disk' = disk]_vars

\* C1 as amended: in a bulk deletion that asks for the phrase, a typed phrase
\* that is not 'DELETE ALL' once its leading and trailing whitespace is
\* stripped leaves every entry on the disk, and no removal is attempted.
C1_NoMatchNoRemoval ==
    [][(last'.op \in BulkOps /\ last'.asked
           /\ Strip(last'.typed) # DeleteAllPhrase)
          => (disk' = disk /\ last'.tried = << >>)]_vars

\* An interactive 'all' over a non-empty inventory, cancelled by a phrase in
\* the wrong case.
C1_Witness ==
    /\ last.op = "interactive_all"
    /\ last.typed = Lower(DeleteAllPhrase)
    /\ last.total >= 2
    /\ \A i \in 1..Len(last.listing) : Exists(disk, last.listing[i].path)

\* C2: once the phrase has been accepted, a bulk deletion asks nothing more:
\* no per-entry confirmation precedes the removal of any entry.
C2_NoPromptAfterPhrase ==
    (last.op \in BulkOps /\ last.phraseOk) => last.prompts = << >>

\* C3: cleanup_all that runs (phrase accepted or force) calls rmtree on every
\* entry of the starting inventory in listing order; every entry whose
\* removal is not refused is gone, also after a refused one; the count is the
\* number of entries removed and the total the size of the inventory.
C3_BulkAttemptsAll ==
    [][(last'.op = "cleanup_all" /\ (last'.force \/ last'.phraseOk))
          => LET inv == ListMaterials(disk)
                 gone == {p \in PathsOf(inv) : ~Exists(disk', p)}
             IN  /\ last'.tried = [i \in 1..Len(inv) |-> inv[i].path]
                 /\ last'.total = Len(inv)
                 /\ gone = PathsOf(inv) \ last'.failed
                 /\ last'.count = Cardinality(gone)
                 /\ \A r \in Roots, n \in Names :
                       [root |-> r, name |-> n] \notin gone
                          => KindAt(disk', r, n) = KindAt(disk, r, n)]_vars

\* cleanup_all whose first removal was refused and which removed a later entry.
C3_Witness ==
    /\ last.op = "cleanup_all"
    /\ Len(last.tried) >= 2
    /\ last.tried[1] \in last.failed
    /\ last.count >= 1
    /\ last.count < last.total

\* C4: when the Project root and the Global root both hold the name,
\* cleanup_specific calls rmtree on the Project instance only, the Global
\* root is as before, and a True result means the Project instance is gone.
C4_ProjectShadowsGlobal ==
    [][last'.op = "cleanup_specific"
          => LET x == last'.name
                 b == FindProjectRoot("cleanup", cwd)
             IN  (/\ b # Absent
                  /\ KindAt(disk, ProjRoot(b), x) # "none"
                  /\ KindAt(disk, GlobalRoot, x) # "none")
                 => /\ disk'[GlobalRoot] = disk[GlobalRoot]
                    /\ \A i \in 1..Len(last'.tried) :
                          last'.tried[i] = [root |-> ProjRoot(b), name |-> x]
                    /\ last'.ret = "True"
                          => KindAt(disk', ProjRoot(b), x) = "none"]_vars

\* cleanup_specific that removed the Project instance of a name the Global
\* root still holds.
C4_Witness ==
    /\ last.op = "cleanup_specific"
    /\ last.ret = "True"
    /\ Len(last.tried) = 1
    /\ last.tried[1].root # GlobalRoot
    /\ KindAt(disk, GlobalRoot, last.name) = "dir"

\* The boundary of the cleanup search, said without the loop: the deepest
\* marked directory from the working directory up to below the root.
CleanupBoundaries == {d \in 1..cwd : d \in marked}

\* C8: get_materials_dirs returns only roots that are on the disk, every such
\* applicable root, at most one per mode, Project before Global; so a root
\* created since the last call is in the next result at its place; and
\* listing creates nothing.
C8_CandidateRoots ==
    /\ [](LET dirs == GetMaterialsDirs(disk)
              proj == IF CleanupBoundaries = {} THEN << >>
                      ELSE IF disk[ProjRoot(Deepest(CleanupBoundaries))].exists
                      THEN << [path |-> ProjRoot(Deepest(CleanupBoundaries)),
                               mode |-> "project"] >>
                      ELSE << >>
              glob == IF disk[GlobalRoot].exists
                      THEN << [path |-> GlobalRoot, mode |-> "global"] >>
                      ELSE << >>
          IN  /\ \A i \in 1..Len(dirs) : disk[dirs[i].path].exists
              /\ dirs = proj \o glob)
    /\ [][last'.op = "list" => disk' = disk]_vars

\* fetch has just created the Global root, and the next get_materials_dirs
\* returns it after the Project root.
C8_Witness ==
    /\ last.op = "fetch"
    /\ last.target = GlobalRoot
    /\ ~last.existed
    /\ Len(GetMaterialsDirs(disk)) = 2
    /\ GetMaterialsDirs(disk)[2].path = GlobalRoot

\* The directories the fetch search can return: marked, below the root, and
\* not the recognised tool directory.
FetchBoundaries ==
    {d \in 1..cwd : d \in marked /\ ~(IsSkillForgeDir /\ d = toolDir)}

C10_ListingOrder ==
    last.op = "list"
        => LET L == last.listing
               roots == {r \in Roots :
                            /\ disk[r].exists
                            /\ \/ r = GlobalRoot
                               \/ /\ CleanupBoundaries # {}
                                  /\ r = ProjRoot(Deepest(CleanupBoundaries))}
               visible == {p \in [root : roots, name : Names] :
                              /\ KindAt(disk, p.root, p.name) = "dir"
                              /\ Head(p.name) # "."}
           IN  /\ {L[i].path : i \in 1..Len(L)} = visible
               /\ Len(L) = Cardinality(visible)
               /\ \A i \in 1..Len(L) :
                     /\ L[i].name = L[i].path.name
                     /\ L[i].mode = IF L[i].path.root = GlobalRoot
                                    THEN "global" ELSE "project"
               /\ \A i, j \in 1..Len(L) :
                     i < j => /\ L[i].mode = "global" => L[j].mode = "global"
                              /\ L[i].mode = L[j].mode
                                    => LexLess(L[i].name, L[j].name)
               /\ roots = {} => (L = << >> /\ last.ret = "None")

\* A listing of three entries in which the Project root and the Global root
\* hold the same name.
C10_Witness ==
    /\ last.op = "list"
    /\ Len(last.listing) = 3
    /\ last.listing[1].name = last.listing[3].name
    /\ last.listing[1].mode = "project"
    /\ last.listing[2].mode = "project"
    /\ last.listing[3].mode = "global"

\* The operations of cleanup_materials.py.
CleanupOps ==
    {"list", "cleanup_all", "cleanup_specific", "interactive_start",
     "interactive_quit", "interactive_all", "interactive_index",
     "interactive_invalid"}

\* C11: a directory directly inside a root whose name starts with '.' is in
\* no listing, and no operation of cleanup_materials.py (list, cleanup_all,
\* cleanup_specific, interactive selection) removes it.
C11_HiddenUntouched ==
    /\ [](\A i \in 1..Len(ListMaterials(disk)) :
             ~StartsWithDot(ListMaterials(disk)[i].name))
    /\ [][last'.op \in CleanupOps
             => \A r \in Roots, n \in Names :
                   (StartsWithDot(n) /\ KindAt(disk, r, n) = "dir")
                      => KindAt(disk', r, n) = "dir"]_vars

\* The operations that hand one entry to delete_material.
SingleOps == {"cleanup_specific", "interactive_index"}

\* C12: delete_material with force=False calls rmtree only after the answer
\* 'y' (trimmed, in either case) to one prompt that names the entry it is
\* about to remove; after any other answer the disk is as before and the
\* result is False. Without a per-entry prompt cleanup_materials.py removes
\* a path only under force or, in cleanup_all, after the accepted phrase.
C12_ConfirmBeforeDestroy ==
    /\ [][(last'.op \in SingleOps /\ ~last'.force /\ last'.ret # "raise"
              /\ last'.listing # << >>)
             => /\ last'.prompts = << last'.listing[1].name >>
                /\ last'.tried # << >>
                      => /\ Lower(Strip(last'.answer)) = <<"y">>
                         /\ last'.tried = << last'.listing[1].path >>
                /\ Lower(Strip(last'.answer)) # <<"y">>
                      => (disk' = disk /\ last'.ret = "False"
                          /\ last'.tried = << >>)]_vars
    /\ [][(last'.op \in CleanupOps /\ disk' # disk /\ last'.prompts = << >>)
             => (last'.force \/ (last'.op = "cleanup_all" /\ last'.phraseOk))]_vars

\* cleanup_specific without force removed its entry after the answer ' Y '.
C12_Witness ==
    /\ last.op = "cleanup_specific"
    /\ ~last.force
    /\ last.answer = <<" ", "Y", " ">>
    /\ last.prompts = << last.name >>
    /\ last.ret = "True"
    /\ ~Exists(disk, last.listing[1].path)

\* C13: every operation of cleanup_materials.py ends with a normal outcome,
\* a list, True, False or a plain return, whatever is on the disk: no
\* filesystem error leaves it as an uncaught exception.
C13_NoUncaughtError ==
    last.op \in CleanupOps => last.ret \in {"None", "True", "False"}

\* The roots the cleanup tool can consider: the Project root when the cleanup
\* search finds a boundary, and the Global root.
ApplicableRoots ==
    (IF CleanupBoundaries = {} THEN << >>
     ELSE << ProjRoot(Deepest(CleanupBoundaries)) >>) \o << GlobalRoot >>

\* C14 as stated: cleanup_specific(name), when no root holds the name,
\* returns False, removes nothing, and its report names every applicable
\* candidate root: the Project root when a boundary exists, and the Global
\* root.
C14_NamesApplicableRoots ==
    [][(/\ last'.op = "cleanup_specific"
        /\ \A r \in Roots : KindAt(disk, r, last'.name) = "none")
          => /\ last'.ret = "False"
             /\ disk' = disk
             /\ [i \in 1..Len(last'.dirs) |-> last'.dirs[i].path]
                   = ApplicableRoots]_vars

\* C14 as amended: cleanup_specific(name), when no root holds the name,
\* returns False, attempts no removal, and its report names exactly the
\* roots it searched: the applicable roots that are on the disk, Project
\* before Global, or, when neither is on the disk, the one default root (the
\* Project root when a boundary exists, else the Global root).
C14_NamesSearchedRoots ==
    [][(/\ last'.op = "cleanup_specific"
        /\ \A r \in Roots : KindAt(disk, r, last'.name) = "none")
          => LET onDisk == SelectSeq(ApplicableRoots,
                                     LAMBDA r : disk[r].exists)
                 named == [i \in 1..Len(last'.dirs) |-> last'.dirs[i].path]
             IN  /\ last'.ret = "False"
                 /\ disk' = disk
                 /\ last'.tried = << >>
                 /\ last'.prompts = << >>
                 /\ named = IF onDisk # << >> THEN onDisk
                            ELSE << ApplicableRoots[1] >>]_vars

\* A name not found below a boundary whose Project root is not on the disk:
\* the report names the Global root alone.
C14_Witness ==
    /\ last.op = "cleanup_specific"
    /\ last.ret = "False"
    /\ last.listing = << >>
    /\ CleanupBoundaries # {}
    /\ Len(last.dirs) = 1
    /\ last.dirs[1].path = GlobalRoot
    /\ last.dirs[1].mode = "global"

\* C15: an interactive session takes its inventory once, when it starts; a
\* choice k acts on the k-th entry of that snapshot (Project entries first,
\* numbered from 1 without gaps) whatever was deleted before in the session;
\* and choosing an entry that is already gone changes nothing on the disk
\* and reports a failure.
C15_SnapshotIndex ==
    /\ [][(last'.op = "interactive_start")
             => materials' = ListMaterials(disk)]_vars
    /\ [][(session /\ last'.op # "interactive_start")
             => materials' = materials]_vars
    /\ [][last'.op = "interactive_index"
             => LET k == last'.index
                IN  /\ k \in 1..Len(materials)
                    /\ last'.listing = << materials[k] >>
                    /\ last'.prompts = << materials[k].name >>
                    /\ \A i \in 1..Len(last'.tried) :
                          last'.tried[i] = materials[k].path
                    /\ \A r \in Roots, n \in Names :
                          [root |-> r, name |-> n] # materials[k].path
                             => KindAt(disk', r, n) = KindAt(disk, r, n)
                    /\ ~Exists(disk, materials[k].path)
                          => (disk' = disk /\ last'.ret = "False")]_vars

\* The second choice of a session names the entry the first one removed: it
\* is confirmed, rmtree fails, and the rest of the snapshot is still there.
C15_Witness ==
    /\ last.op = "interactive_index"
    /\ picks = 2
    /\ Len(materials) >= 2
    /\ last.index = 1
    /\ last.tried = << materials[1].path >>
    /\ last.ret = "False"
    /\ ~Exists(disk, materials[1].path)
    /\ Exists(disk, materials[2].path)

\* C16: delete_material(e, force=True) that returns True has removed e's
\* directory and nothing else: every other file and directory of either
\* root, and the roots themselves, are as before, and the next
\* list_materials is the previous listing without e, the rest in the same
\* order.
C16_RemovesExactlyOne ==
    [][(last'.op = "cleanup_specific" /\ last'.force /\ last'.ret = "True")
          => LET e == last'.listing[1]
             IN  /\ KindAt(disk, e.path.root, e.path.name) = "dir"
                 /\ KindAt(disk', e.path.root, e.path.name) = "none"
                 /\ \A r \in Roots :
                       /\ disk'[r].exists = disk[r].exists
                       /\ \A n \in Names :
                             [root |-> r, name |-> n] # e.path
                                => KindAt(disk', r, n) = KindAt(disk, r, n)
                 /\ ListMaterials(disk')
                       = SelectSeq(ListMaterials(disk),
                                   LAMBDA m : m.path # e.path)]_vars

\* The Global root held two visible entries; the forced deletion of the
\* first left a listing of the second alone.
C16_Witness ==
    /\ last.op = "cleanup_specific"
    /\ last.force
    /\ last.ret = "True"
    /\ last.prompts = << >>
    /\ last.listing[1].path.root = GlobalRoot
    /\ Len(ListMaterials(disk)) = 1
    /\ ListMaterials(disk)[1].mode = "global"
    /\ LexLess(last.name, ListMaterials(disk)[1].name)

\* C20: every path cleanup_specific(name) hands to rmtree is a directory
\* directly inside a root that get_materials_dirs returned, and the call
\* removes nothing else: no regular file, no root, nothing above a root
\* (as through the name '..'), nothing under a root that was not on the disk.
C20_RemovesOnlyEntries ==
    [][last'.op = "cleanup_specific"
          => LET roots == {GetMaterialsDirs(disk)[i].path :
                              i \in 1..Len(GetMaterialsDirs(disk))}
             IN  /\ \A i \in 1..Len(last'.tried) :
                       /\ last'.tried[i].root \in roots
                       /\ last'.tried[i].name \in Names
                       /\ KindAt(disk, last'.tried[i].root,
                                 last'.tried[i].name) = "dir"
                 /\ \A r \in Roots :
                       /\ disk'[r].exists = disk[r].exists
                       /\ \A n \in Names :
                             KindAt(disk, r, n) = "file"
                                => KindAt(disk', r, n) = "file"]_vars

\* A file that lies under a top-level directory with an allow-listed name.
UnderAllowedDir(f) == Len(f) >= 2 /\ f[1] \in AllowedPaths

\* A cache artifact: under a __pycache__ directory, or named *.pyc.
IsCache(f) ==
    \/ \E i \in 1..Len(f) : f[i] = Pycache
    \/ EndsWith(f[Len(f)], PycSuffix)

\* C17: package_skill that makes an archive logs every file under the source
\* directory once, as Added or as Skipped; a file is Added only if it is
\* SKILL.md at the top level or lies under a top-level directory named
\* scripts, references or assets; every other file, and every __pycache__
\* or .pyc file, is Skipped; and every logged path is the file's path
\* relative to the parent of the source directory.
C17_AddedOrSkipped ==
    packed.ret = "zip"
        => /\ \A f \in packed.walked :
                 LET arc == << SkillName >> \o f
                 IN  /\ (arc \in packed.added) # (arc \in packed.skipped)
                     /\ arc \in packed.added
                           => (f = << SkillMd >> \/ UnderAllowedDir(f))
                     /\ ~(f = << SkillMd >> \/ UnderAllowedDir(f))
                           => arc \in packed.skipped
                     /\ IsCache(f) => arc \in packed.skipped
           /\ packed.added \cup packed.skipped
                 = {<< SkillName >> \o f : f \in packed.walked}

\* C18: in main() of fetch_source.py a failed clone ends the program with
\* exit 1 before fetch_documentation is called; a failed conversion ends it
\* with exit 1 only when no --git was given; after a successful clone a
\* failed conversion leaves the exit at 0.
C18_CollaboratorFailures ==
    mainPc = "exit"
        => LET called(c) == \E i \in 1..Len(run.calls) : run.calls[i] = c
               cloneFailed == called("clone_repository") /\ ~run.success_git
               docsFailed == called("fetch_documentation") /\ ~run.success_docs
           IN  /\ cloneFailed
                     => /\ run.exit = 1
                        /\ ~called("fetch_documentation")
                        /\ ~called("convert")
               /\ (docsFailed /\ ~args.git) => run.exit = 1
               /\ (docsFailed /\ args.git)
                     => (run.success_git /\ run.exit = 0)
               /\ run.exit = 1 => (cloneFailed \/ (docsFailed /\ ~args.git))
               /\ args.git => called("clone_repository")

\* --git and --docs: the clone succeeded, the conversion raised, exit 0.
C18_Witness ==
    /\ mainPc = "exit"
    /\ args.git /\ args.docs
    /\ run.success_git
    /\ ~run.success_docs
    /\ run.calls = <<"clone_repository", "fetch_documentation", "convert",
                     "print_next_steps">>
    /\ run.exit = 0

\* C19: from every working directory the fetch search and the cleanup search
\* return the same boundary, or both None, and so the default target fetch
\* writes to is one of the roots the cleanup tool looks at: its Project root
\* or the Global root.
C19_SearchesAgree ==
    /\ FindProjectRoot("fetch", cwd) = FindProjectRoot("cleanup", cwd)
    /\ \/ GetSmartMaterialsDir(disk) = GlobalRoot
       \/ /\ FindProjectRoot("cleanup", cwd) # Absent
          /\ GetSmartMaterialsDir(disk)
                = ProjRoot(FindProjectRoot("cleanup", cwd))

====
